---- MODULE Spec2Model ----
(***************************************************************************)
(* ldap_sync: the sync main loop of main.py (config load, directory bind,  *)
(* group search, paged user search, person extraction, unbind, persist,    *)
(* sleep) and the two persistence drivers of db.py (PgDatabase and         *)
(* OracleDatabase), as one state machine.                                  *)
(*                                                                         *)
(* The directory server, the configuration file and the backends are the   *)
(* environment: what they answer is chosen from small sets.  A Python      *)
(* exception that no handler of the program catches ends the process:      *)
(* pc = "TERMINATED", with the exception recorded in fatal.                *)
(***************************************************************************)
EXTENDS Integers, Sequences, FiniteSets, TLC

VARIABLES
    pc,            \* position of the main loop
    cfg,           \* main.py `cfg`: the configuration validated last
    sleepFor,      \* argument of the time.sleep call the loop is in, else 0
    fatal,         \* the uncaught exception that ended the process, or "none"
    dir,           \* the directory server the loop is bound to (environment)
    ldapOpen,      \* the directory connection of ldap_conn is open
    groups,        \* main.py `groups`: dn -> group dict
    persons,       \* main.py `persons`
    memberships,   \* main.py `memberships`
    pages,         \* main.py `pages`
    cookie,        \* main.py `page_control.cookie` (0 is the empty cookie)
    phase,         \* save_and_sync: the statement list being submitted
    idx,           \* save_and_sync: index of the next item of that list
    dbOpen,        \* the backend connection is open
    pending,       \* backend: items staged in the open transaction
    committed,     \* backend: items committed in this iteration
    errors,        \* item errors logged by save_and_sync in this iteration
    dbLog,         \* backend interactions of this iteration, in order
    faults,        \* number of backend calls of this iteration that failed
    loadResult,    \* outcome of the last config load
    bindResult,    \* outcome of the last directory bind of this iteration
    requests,      \* cookies of the paged search requests of this cycle
    seen,          \* ids of the user entries the for-loop iterated over
                   \* (both kept until the directory connection is closed)
    warned,        \* the RFC 2696 warning was logged by this cycle's search
    prevFailed,    \* during the searches: the iteration before this one left
                   \* persons behind, and its save_and_sync logged an error
    credGuid,      \* generate_credentials on its own: the identifier given
    credLogin      \* generate_credentials on its own: the login returned

vars == <<pc, cfg, sleepFor, fatal, dir, ldapOpen, groups, persons, memberships,
          pages, cookie, phase, idx, dbOpen, pending,
          committed, errors, dbLog, faults, loadResult, bindResult, requests, seen,
          warned, prevFailed, credGuid, credLogin>>

mainVars == <<groups, persons, memberships, pages, cookie>>
dbVars == <<phase, idx, dbOpen, pending, committed, errors, dbLog, faults>>
ghostVars == <<requests, seen, warned, prevFailed>>
credVars == <<credGuid, credLogin>>

(***************************************************************************)
(* Bounds of the model.                                                    *)
(***************************************************************************)
MaxUsers == 2       \* user entries of a small directory
MaxFaults == 1      \* backend calls that fail in one iteration
MaxErrorPage == 2   \* last page whose search request the server may fail
MaxGuid == 200      \* identifiers 0..MaxGuid are given to generate_credentials

(***************************************************************************)
(* Program constants.                                                      *)
(***************************************************************************)
MaxPages == 999            \* main.py:96
ConfigRetrySeconds == 60   \* main.py:54
DefaultErrorRetry == 60    \* config.py:76
Radix == 37                \* main.py:39
HexWidth == 32             \* main.py:124, the length of UUID.hex

Range(s) == {s[i] : i \in 1..Len(s)}

(***************************************************************************)
(* config.py                                                               *)
(***************************************************************************)
\* Config.check_single_db: TRUE when the validator raises ValueError.
check_single_db(values) ==
    LET i == Cardinality({v \in {"oracle", "pg"} : values[v]})
    IN  (i > 1) \/ (i < 1)

\* Config.model_validate: TRUE when pydantic raises ValidationError.
ValidationError(doc) == ~doc.fieldsOk \/ check_single_db(doc)

\* A config.yml as the loop finds it.  parses: yaml.safe_load returns a
\* document; fieldsOk: every field other than the backend blocks validates;
\* oracle, pg: the backend block is present (and valid).  The settings of a
\* file that does not load are never read: they are left at one value.  The
\* retry interval, read only after a failed bind, differs from its default in
\* one of the files.
RawConfigs ==
    {doc \in [parses : BOOLEAN, fieldsOk : BOOLEAN, oracle : BOOLEAN, pg : BOOLEAN,
              dbg_no_save : BOOLEAN, error_retry_interval : {DefaultErrorRetry, 10},
              page_size : {1, 2}, sync_interval : {300}] :
        /\ (~doc.parses \/ ValidationError(doc)) =>
            /\ ~doc.dbg_no_save
            /\ doc.error_retry_interval = DefaultErrorRetry
            /\ doc.page_size = 1
        /\ doc.error_retry_interval # DefaultErrorRetry =>
            (doc.pg /\ ~doc.dbg_no_save /\ doc.page_size = 1)}

\* The Config object model_validate returns.
Config(doc) ==
    [oracle |-> doc.oracle, pg |-> doc.pg, dbg_no_save |-> doc.dbg_no_save,
     error_retry_interval |-> doc.error_retry_interval,
     page_size |-> doc.page_size, sync_interval |-> doc.sync_interval]

\* `cfg` before the first successful load (the name is unbound in Python).
NoCfg ==
    [oracle |-> FALSE, pg |-> FALSE, dbg_no_save |-> FALSE,
     error_retry_interval |-> 0, page_size |-> 0, sync_interval |-> 0]

(***************************************************************************)
(* The directory server.                                                   *)
(***************************************************************************)
\* Group entries a group search can return; dn "" is a referral stub.
Referral == [dn |-> "", guid |-> 0]
G1 == [dn |-> "g1", guid |-> 101]
G2 == [dn |-> "g2", guid |-> 102]
GroupResults == {<<>>, <<G1>>, <<Referral, G1, G2>>}

\* memberOf values of user entries; "gx" is a group no group search returns.
MemberOfs == {<<>>, <<"gx">>, <<"g2", "gx">>, <<"g1", "g2">>}

\* User entries: the k-th entry of a directory has id k and objectGUID k.
UserKinds ==
    [dn : {"u"}, memberOf : MemberOfs] \cup {[dn |-> "", memberOf |-> <<"g1">>]}
UserLists == UNION {[1..n -> UserKinds] : n \in 0..MaxUsers}

\* Entries beyond the listed ones (a large directory): users without groups.
PadKind == [dn |-> "u", memberOf |-> <<>>]

\* paging: "paged" honours RFC 2696; "ignored" returns no paging control;
\* "endless" returns a non-empty cookie on every page.
SmallDirectories ==
    [groups : GroupResults, users : UserLists, total : {0}, paging : {"paged", "ignored"}]

\* A directory that fills exactly MaxPages pages, and a server that never
\* ends the paging of a one-entry directory (both searched with page size 1).
LargeDirectories(psize) ==
    LET g == <<G1>>
        u == <<[dn |-> "u", memberOf |-> <<"g1">>]>>
    IN  IF psize # 1 THEN {}
        ELSE {[groups |-> g, users |-> u, total |-> MaxPages, paging |-> "paged"],
              [groups |-> g, users |-> u, total |-> 1, paging |-> "endless"]}

Directories(psize) ==
    {[d EXCEPT !.total = Len(d.users)] : d \in SmallDirectories}
        \cup LargeDirectories(psize)

\* No directory is being searched.
NoDirectory == [groups |-> <<>>, users |-> <<>>, total |-> 0, paging |-> "none"]

EntryAt(d, k) ==
    LET kind == IF k <= Len(d.users) THEN d.users[k] ELSE PadKind
    IN  [id |-> k, dn |-> kind.dn, guid |-> k, memberOf |-> kind.memberOf]

PagedOID == "1.2.840.113556.1.4.319"

\* The answer to a paged search request carrying cookie c with page size p:
\* the entries of page c + 1 and the server controls.
ServerPage(d, p, c) ==
    LET i == c + 1
        first == IF d.paging = "ignored" THEN 1 ELSE (i - 1) * p + 1
        last == IF d.paging = "ignored" \/ i * p > d.total THEN d.total ELSE i * p
        more == d.paging = "endless" \/ i * p < d.total
    IN  [data |-> [j \in 1..(IF last < first THEN 0 ELSE last - first + 1)
                        |-> EntryAt(d, first + j - 1)],
         serverctrls |-> IF d.paging = "ignored" THEN <<>>
                         ELSE <<[controlType |-> PagedOID,
                                 cookie |-> IF more THEN i ELSE 0]>>]

\* Number of pages a directory that honours paging answers in.
NumPages(d, p) == IF d.total = 0 THEN 1 ELSE (d.total + p - 1) \div p

(***************************************************************************)
(* main.py: generate_credentials.  A str is the sequence of its characters. *)
(***************************************************************************)
\* main.py 36: the default of `numerals`.
Numerals ==
    <<"0", "1", "2", "3", "4", "5", "6", "7", "8", "9", "A", "B", "C", "D", "E",
      "F", "G", "H", "I", "J", "K", "L", "M", "N", "O", "P", "Q", "R", "S", "T",
      "U", "V", "W", "X", "Y", "Z", "_">>

HexDigits ==
    <<"0", "1", "2", "3", "4", "5", "6", "7", "8", "9", "A", "B", "C", "D", "E", "F">>

\* The value of a digit: its index in the alphabet.
DigitValue(ch, alphabet) == (CHOOSE i \in 1..Len(alphabet) : alphabet[i] = ch) - 1

\* main.py 124: guid.hex.upper(), the HexWidth hexadecimal digits of the
\* integer value n of a UUID.
RECURSIVE HexOf(_, _)
HexOf(n, width) ==
    IF width = 0 THEN <<>>
    ELSE Append(HexOf(n \div 16, width - 1), HexDigits[(n % 16) + 1])

HexUpper(n) == HexOf(n, HexWidth)

\* main.py 39: int(ldap_guid, 16)
RECURSIVE IntOfHex(_)
IntOfHex(str) ==
    IF str = <<>> THEN 0
    ELSE IntOfHex(SubSeq(str, 1, Len(str) - 1)) * 16
            + DigitValue(str[Len(str)], HexDigits)

\* lstrip that strips nothing.
lstripNothing(str, ch) == str

\* main.py 37: str.lstrip(ch)
RECURSIVE lstrip(_, _)
lstrip(str, ch) ==
    IF str # <<>> /\ Head(str) = ch THEN lstrip(Tail(str), ch) ELSE str

\* main.py 36-37: ((num == 0) and numerals[0]) or
\*   (baseN(num // b, b, numerals).lstrip(numerals[0]) + numerals[num % b])
RECURSIVE baseN(_, _, _)
baseN(num, b, numerals) ==
    IF num = 0 THEN <<numerals[1]>>
    ELSE Append(lstrip(baseN(num \div b, b, numerals), numerals[1]),
                numerals[(num % b) + 1])

\* main.py 35-39: the login of the pair generate_credentials returns.  The
\* password, baseN of the md5 digest of ldap_guid + key, is not modelled.
generate_credentials(ldap_guid) ==
    [login |-> <<"L", "0", "_">> \o baseN(IntOfHex(ldap_guid), Radix, Numerals)]

(***************************************************************************)
(* main.py: extraction                                                     *)
(***************************************************************************)
\* str(uuid.UUID(bytes_le=...)).upper(): the canonical form of a raw GUID.
UuidStr(raw) == [uuid |-> raw]

\* main.py 77-88: the group index built from the group search results.
RECURSIVE BuildGroups(_, _)
BuildGroups(res, acc) ==
    IF res = <<>> THEN acc
    ELSE LET e == Head(res)
         IN  IF e.dn = "" THEN BuildGroups(Tail(res), acc)
             ELSE BuildGroups(Tail(res),
                    [k \in DOMAIN acc \cup {e.dn} |->
                        IF k = e.dn THEN [dn |-> e.dn, objectGUID |-> UuidStr(e.guid)]
                        ELSE acc[k]])

EmptyGroups == [k \in {} |-> 0]

\* main.py 112-117: the loop over memberOf; acc is [edges, in_group].
RECURSIVE ResolveMemberOf(_, _, _, _)
ResolveMemberOf(refs, guid, grp, acc) ==
    IF refs = <<>> THEN acc
    ELSE LET memberOf == Head(refs)
         IN  IF memberOf \in DOMAIN grp
             THEN ResolveMemberOf(Tail(refs), guid, grp,
                    [edges |-> Append(acc.edges,
                                 <<UuidStr(guid), grp[memberOf].objectGUID>>),
                     in_group |-> TRUE])
             ELSE ResolveMemberOf(Tail(refs), guid, grp, acc)

\* SkipPerson without the in_group test.
SkipPersonNever(in_group) == FALSE

\* main.py 119: whether the person is skipped after the memberOf loop.
SkipPerson(in_group) == ~in_group

\* main.py 108-132: one entry of a page; acc is [persons, memberships].
ProcessEntry(e, grp, acc) ==
    IF e.dn = "" THEN acc
    ELSE IF e.memberOf # <<>>
    THEN LET r == ResolveMemberOf(e.memberOf, e.guid, grp,
                                  [edges |-> <<>>, in_group |-> FALSE])
             withEdges == [acc EXCEPT !.memberships = @ \o r.edges]
         IN  IF SkipPerson(r.in_group) THEN withEdges
             ELSE [withEdges EXCEPT !.persons =
                      Append(@, [dn |-> e.dn, objectGUID |-> UuidStr(e.guid),
                                 login |-> generate_credentials(HexUpper(e.guid)).login])]
    ELSE acc

\* main.py 107: the for-loop over res_data.
RECURSIVE ProcessPage(_, _, _)
ProcessPage(data, grp, acc) ==
    IF data = <<>> THEN acc
    ELSE ProcessPage(Tail(data), grp, ProcessEntry(Head(data), grp, acc))

\* PageBoundExceeded off by one.
PageBoundExceededEarly(p) == p >= MaxPages

\* main.py 96: the page-count safety bound.
PageBoundExceeded(p) == p > MaxPages

\* main.py 104-105: the paged-results controls of a response.
PagedControls(serverctrls) ==
    SelectSeq(serverctrls, LAMBDA c : c.controlType = PagedOID)

\* WarnIgnored without the warning.
WarnIgnoredNever(controls) == FALSE

\* main.py 134-135: if not controls: log.warning('The server ignores RFC
\* 2696 control')
WarnIgnored(controls) == controls = <<>>

\* main.py 134-138: whether the while-loop breaks after this page.
PagingDone(controls) == controls = <<>> \/ controls[1].cookie = 0

\* NextCookie without the assignment of the returned cookie.
NextCookieStale(controls, old) == old

\* main.py 139: the cookie of the next request.
NextCookie(controls, old) == controls[1].cookie

\* main.py 23-32: the document of a record.
to_xml(object_dict) == [object |-> object_dict]

ToXmls(s) == [i \in 1..Len(s) |-> to_xml(s[i])]

\* main.py 143: [to_xml(group) for _, group in groups.items()]; dict order is
\* insertion order, which for the group results above is the order of the dn.
RECURSIVE GroupItems(_, _)
GroupItems(grp, keys) ==
    IF keys = {} THEN <<>>
    ELSE LET k == CHOOSE x \in keys : \A y \in keys : x = "g1" \/ y # "g1"
         IN  <<grp[k]>> \o GroupItems(grp, keys \ {k})

\* main.py 143-144: the documents handed to save_and_sync.  groups and
\* persons do not change between these lines and the return of save_and_sync.
groups_xmls == ToXmls(GroupItems(groups, DOMAIN groups))
persons_xmls == ToXmls(persons)

(***************************************************************************)
(* main.py: the main loop                                                  *)
(***************************************************************************)
Init ==
    /\ pc = "LOADING_CONFIG"
    /\ cfg = NoCfg
    /\ sleepFor = 0
    /\ fatal = "none"
    /\ dir = NoDirectory
    /\ ldapOpen = FALSE
    /\ groups = EmptyGroups
    /\ persons = <<>>
    /\ memberships = <<>>
    /\ pages = 0
    /\ cookie = 0
    /\ phase = "none"
    /\ idx = 0
    /\ dbOpen = FALSE
    /\ pending = <<>>
    /\ committed = <<>>
    /\ errors = <<>>
    /\ dbLog = <<>>
    /\ faults = 0
    /\ loadResult = "none"
    /\ bindResult = "none"
    /\ requests = <<>>
    /\ seen = <<>>
    /\ warned = FALSE
    /\ prevFailed = FALSE
    /\ credGuid = 0
    /\ credLogin = <<>>

\* An exception no handler catches: the interpreter exits.
Crash(exc) ==
    /\ pc' = "TERMINATED"
    /\ fatal' = exc

\* time.sleep(seconds), entered.
Sleep(seconds) ==
    /\ pc' = "SLEEPING"
    /\ sleepFor' = seconds

\* db.py 68-70 / 133-137: the handler of save_and_sync logged a driver error.
FatalLogged == \E i \in 1..Len(dbLog) : dbLog[i].ev = "fatal_logged"

\* The history of one iteration starts empty.
ResetHistory ==
    /\ dbLog' = <<>>
    /\ errors' = <<>>
    /\ committed' = <<>>
    /\ pending' = <<>>
    /\ faults' = 0
    /\ phase' = "none"
    /\ idx' = 0
    /\ bindResult' = "none"
    /\ requests' = <<>>
    /\ seen' = <<>>
    /\ warned' = FALSE

\* main.py 50-58: cfg = Config.model_validate(yaml.safe_load(open('config.yml')))
LoadConfig ==
    /\ pc = "LOADING_CONFIG"
    /\ ResetHistory
    /\ prevFailed' = (persons # <<>> /\ (errors # <<>> \/ FatalLogged))
    /\ \E doc \in RawConfigs :
        IF ~doc.parses
        THEN \* yaml.YAMLError / OSError: not a ValidationError, not caught
             /\ Crash("config_unreadable")
             /\ loadResult' = "unreadable"
             /\ UNCHANGED <<cfg, sleepFor>>
        ELSE IF ValidationError(doc)
        THEN /\ Sleep(ConfigRetrySeconds)
             /\ loadResult' = "invalid"
             /\ UNCHANGED <<cfg, fatal>>
        ELSE /\ cfg' = Config(doc)
             /\ loadResult' = "ok"
             /\ pc' = "CONNECTING"
             /\ UNCHANGED <<sleepFor, fatal>>
    /\ UNCHANGED <<dir, ldapOpen, mainVars, dbOpen, credVars>>

\* time.sleep returns: `continue`, or the end of the loop body.
Wake ==
    /\ pc = "SLEEPING"
    /\ pc' = "LOADING_CONFIG"
    /\ sleepFor' = 0
    /\ UNCHANGED <<cfg, fatal, dir, ldapOpen, mainVars, dbVars,
                   loadResult, bindResult, ghostVars, credVars>>

\* BindRetrySeconds with the fixed backoff of the config load.
BindRetrySecondsFixed == ConfigRetrySeconds

\* main.py 69: the backoff after a failed bind.
BindRetrySeconds == cfg.error_retry_interval

\* main.py 59-70: MyLDAPObject(host), set_option, simple_bind_s.
\* "server_down": no connection was made; "invalid_credentials": the server
\* answered the bind with an error over an open connection, which the except
\* branch (63-70) leaves open: it has no unbind_s.  The object of an earlier
\* failed bind loses its last reference when line 60 assigns ldap_conn, and
\* its connection goes with it.
Connect ==
    /\ pc = "CONNECTING"
    /\ \/ /\ ldapOpen' = TRUE
          /\ bindResult' = "ok"
          /\ pc' = "GROUPS_SEARCH"
          /\ UNCHANGED sleepFor
       \/ /\ \E r \in {"server_down", "invalid_credentials"} :
                /\ bindResult' = r
                /\ ldapOpen' = (r = "invalid_credentials")
          /\ Sleep(BindRetrySeconds)
    /\ UNCHANGED <<cfg, fatal, dir, mainVars, dbVars, loadResult, ghostVars, credVars>>

\* NewGroups without the fresh dict: the index of the iteration before.
NewGroupsKept == groups

\* main.py 77: groups = {}
NewGroups == EmptyGroups

\* main.py 73-93: the group search, the group index, and the working set of
\* the user search.  An ldap.LDAPError of search/allresults is not caught.
GroupsSearch ==
    /\ pc = "GROUPS_SEARCH"
    /\ \/ /\ \E d \in Directories(cfg.page_size) :
                /\ dir' = d
                /\ groups' = BuildGroups(d.groups, NewGroups)
          /\ persons' = <<>>
          /\ memberships' = <<>>
          /\ pages' = 0
          /\ cookie' = 0
          /\ pc' = "PAGING"
          /\ UNCHANGED fatal
       \/ /\ Crash("ldap_search_error")
          /\ UNCHANGED <<dir, mainVars>>
    /\ UNCHANGED <<cfg, sleepFor, ldapOpen, dbVars, loadResult,
                   bindResult, ghostVars, credVars>>

\* main.py 94-139: one iteration of the paged user search.
UsersPage ==
    /\ pc = "PAGING"
    /\ pages' = pages + 1
    /\ IF PageBoundExceeded(pages')
       THEN /\ Crash("pages_bound")
            /\ UNCHANGED <<persons, memberships, cookie, ghostVars>>
       ELSE \/ LET resp == ServerPage(dir, cfg.page_size, cookie)
                   controls == PagedControls(resp.serverctrls)
                   acc == ProcessPage(resp.data, groups,
                             [persons |-> persons, memberships |-> memberships])
               IN  /\ requests' = Append(requests, cookie)
                   /\ seen' = seen \o [j \in 1..Len(resp.data) |-> resp.data[j].id]
                   /\ persons' = acc.persons
                   /\ memberships' = acc.memberships
                   /\ warned' = (warned \/ WarnIgnored(controls))
                   /\ IF PagingDone(controls)
                      THEN /\ pc' = "UNBINDING"
                           /\ UNCHANGED cookie
                      ELSE /\ cookie' = NextCookie(controls, cookie)
                           /\ pc' = "PAGING"
                   /\ UNCHANGED fatal
            \/ \* ldap.LDAPError of search_ext/result3: not caught
               /\ pages' <= MaxErrorPage
               /\ requests' = Append(requests, cookie)
               /\ Crash("ldap_search_error")
               /\ UNCHANGED <<persons, memberships, cookie, seen, warned>>
    /\ UNCHANGED <<cfg, sleepFor, dir, ldapOpen, groups, dbVars,
                   loadResult, bindResult, prevFailed, credVars>>

\* The history of the searches ends with the directory connection.
ExtractionOver ==
    /\ requests' = <<>>
    /\ seen' = <<>>
    /\ warned' = FALSE
    /\ prevFailed' = FALSE

\* SkipSave without the test of the flag.
SkipSaveNever == FALSE

\* main.py 152: if cfg.dbg_no_save
SkipSave == cfg.dbg_no_save

\* main.py 141-159 up to the call of save_and_sync: unbind, serialise, pick
\* the driver, and the dry-run branch.
Unbind ==
    /\ pc = "UNBINDING"
    /\ ldapOpen' = FALSE
    /\ dir' = NoDirectory
    /\ IF SkipSave
       THEN Sleep(cfg.sync_interval)
       ELSE /\ pc' = "DB_CONNECT"
            /\ UNCHANGED sleepFor
    /\ ExtractionOver
    /\ UNCHANGED <<cfg, fatal, mainVars, dbVars, loadResult, bindResult,
                   credVars>>

(***************************************************************************)
(* db.py: the backends                                                     *)
(***************************************************************************)
\* The statement lists of save_and_sync, in order, then the finalize call
\* and the commit.
\* NextPhase with the commit right after the memberships.
NextPhaseNoSync(ph) ==
    CASE ph = "groups" -> "persons"
      [] ph = "persons" -> "memberships"
      [] ph = "memberships" -> "commit"
      [] ph = "run_sync" -> "commit"

NextPhase(ph) ==
    CASE ph = "groups" -> "persons"
      [] ph = "persons" -> "memberships"
      [] ph = "memberships" -> "run_sync"
      [] ph = "run_sync" -> "commit"

ItemPhases == {"groups", "persons", "memberships"}

\* The arguments of save_and_sync (main.py 155-157).
Items(ph) ==
    CASE ph = "groups" -> groups_xmls
      [] ph = "persons" -> persons_xmls
      [] ph = "memberships" -> memberships

\* A backend call as the backend sees it: one that answered with res, and
\* one whose execute raised the driver's exception.
Call(proc, arg, res) ==
    [ev |-> "call", proc |-> proc, arg |-> arg, res |-> res, raised |-> FALSE]

CallRaised(proc, arg) ==
    [ev |-> "call", proc |-> proc, arg |-> arg, res |-> "exception", raised |-> TRUE]

\* A call that answers may fail only while the iteration's faults allow it.
MayFail == faults < MaxFaults

\* save_and_sync has returned (with or without error): main.py 158-159.
Returned ==
    /\ dbOpen' = FALSE
    /\ phase' = "none"
    /\ idx' = 0
    /\ Sleep(cfg.sync_interval)

\* db.py 38 / 118: connect raises; there is no connection and no transaction.
ConnectFailed ==
    /\ dbLog' = dbLog \o <<[ev |-> "connect_failed"], [ev |-> "fatal_logged"]>>
    /\ Returned
    /\ UNCHANGED <<pending, committed, errors>>

\* Aborted with the staged items committed instead of rolled back.
AbortedCommitting(log) ==
    /\ dbLog' = log \o <<[ev |-> "commit"], [ev |-> "fatal_logged"]>>
    /\ committed' = committed \o pending
    /\ pending' = <<>>
    /\ Returned
    /\ UNCHANGED errors

\* db.py 68-70 / 133-137: a driver error leaves the `with` block of the
\* connection (the open transaction is rolled back) and is logged.
Aborted(log) ==
    /\ dbLog' = log \o <<[ev |-> "rollback"], [ev |-> "fatal_logged"]>>
    /\ pending' = <<>>
    /\ Returned
    /\ UNCHANGED <<committed, errors>>

(***************************************************************************)
(* db.py: PgDatabase                                                       *)
(***************************************************************************)
PgSuccess == "(0,Success)"
PgRows == {PgSuccess, "(1,Error)"}

\* db.py 27-30
PgSql(ph) ==
    CASE ph = "groups" -> "p_get_group"
      [] ph = "persons" -> "p_get_person"
      [] ph = "memberships" -> "p_get_memberships"
      [] ph = "run_sync" -> "p_run_sync"

\* PgIsError without the comparison.
PgIsErrorNever(result) == FALSE

\* db.py 44, 51, 58, 64: the sentinel check.
PgIsError(result) == result # PgSuccess

\* db.py 38-40: psycopg2.connect
PgConnect ==
    /\ pc = "DB_CONNECT"
    /\ cfg.pg
    /\ \/ /\ dbOpen' = TRUE
          /\ dbLog' = Append(dbLog, [ev |-> "connect"])
          /\ phase' = "groups"
          /\ idx' = 1
          /\ pc' = "DB_SAVE"
          /\ UNCHANGED <<pending, committed, errors, sleepFor>>
       \/ ConnectFailed
    /\ UNCHANGED <<cfg, fatal, dir, ldapOpen, mainVars, faults, loadResult,
                   bindResult, ghostVars, credVars>>

\* db.py 41-60: one item of one of the three for-loops.
PgSave ==
    /\ pc = "DB_SAVE"
    /\ cfg.pg
    /\ phase \in ItemPhases
    /\ idx <= Len(Items(phase))
    /\ LET item == Items(phase)[idx]
       IN  \/ \E result \in PgRows :
                /\ result = PgSuccess \/ MayFail
                /\ faults' = IF result = PgSuccess THEN faults ELSE faults + 1
                /\ dbLog' = Append(dbLog, Call(PgSql(phase), item, result))
                /\ pending' = IF result = PgSuccess
                              THEN Append(pending, [proc |-> PgSql(phase), arg |-> item])
                              ELSE pending
                /\ errors' = IF PgIsError(result)
                             THEN Append(errors, [phase |-> phase, idx |-> idx])
                             ELSE errors
                /\ idx' = idx + 1
                /\ UNCHANGED <<pc, phase, dbOpen, committed, sleepFor>>
           \/ \* cur.execute raises psycopg2.Error
              /\ MayFail
              /\ faults' = faults + 1
              /\ Aborted(Append(dbLog, CallRaised(PgSql(phase), item)))
    /\ UNCHANGED <<cfg, fatal, dir, ldapOpen, mainVars, loadResult, bindResult,
                   ghostVars, credVars>>

\* db.py 41, 48, 55: a for-loop is exhausted.
PgLoopExit ==
    /\ pc = "DB_SAVE"
    /\ cfg.pg
    /\ phase \in ItemPhases
    /\ idx > Len(Items(phase))
    /\ phase' = NextPhase(phase)
    /\ idx' = 1
    /\ UNCHANGED <<pc, cfg, sleepFor, fatal, dir, ldapOpen, mainVars, dbOpen,
                   pending, committed, errors, dbLog, faults, loadResult,
                   bindResult, ghostVars, credVars>>

\* PgRunSync treating a row other than the sentinel as a driver error.
PgRunSyncStrict ==
    /\ pc = "DB_SAVE"
    /\ cfg.pg
    /\ phase = "run_sync"
    /\ \/ /\ dbLog' = Append(dbLog, Call(PgSql(phase), <<>>, PgSuccess))
          /\ pending' = Append(pending, [proc |-> PgSql(phase), arg |-> <<>>])
          /\ phase' = NextPhase(phase)
          /\ UNCHANGED <<pc, idx, dbOpen, committed, sleepFor, errors, faults>>
       \/ \E result \in PgRows \ {PgSuccess} :
            /\ MayFail
            /\ faults' = faults + 1
            /\ Aborted(Append(dbLog, Call(PgSql(phase), <<>>, result)))
       \/ /\ MayFail
          /\ faults' = faults + 1
          /\ Aborted(Append(dbLog, CallRaised(PgSql(phase), <<>>)))
    /\ UNCHANGED <<cfg, fatal, dir, ldapOpen, mainVars, loadResult, bindResult,
                   ghostVars, credVars>>

\* db.py 62-65: the finalize call.
PgRunSync ==
    /\ pc = "DB_SAVE"
    /\ cfg.pg
    /\ phase = "run_sync"
    /\ \/ \E result \in PgRows :
            /\ result = PgSuccess \/ MayFail
            /\ faults' = IF result = PgSuccess THEN faults ELSE faults + 1
            /\ dbLog' = Append(dbLog, Call(PgSql(phase), <<>>, result))
            /\ pending' = IF result = PgSuccess
                          THEN Append(pending, [proc |-> PgSql(phase), arg |-> <<>>])
                          ELSE pending
            /\ errors' = IF PgIsError(result)
                         THEN Append(errors, [phase |-> phase, idx |-> 0])
                         ELSE errors
            /\ phase' = NextPhase(phase)
            /\ UNCHANGED <<pc, idx, dbOpen, committed, sleepFor>>
       \/ /\ MayFail
          /\ faults' = faults + 1
          /\ Aborted(Append(dbLog, CallRaised(PgSql(phase), <<>>)))
    /\ UNCHANGED <<cfg, fatal, dir, ldapOpen, mainVars, loadResult, bindResult,
                   ghostVars, credVars>>

\* db.py 66-67: conn.commit(), then the `with` blocks are left (the exit of
\* the connection's block commits again, an empty transaction).
PgCommit ==
    /\ pc = "DB_SAVE"
    /\ cfg.pg
    /\ phase = "commit"
    /\ \/ /\ dbLog' = Append(dbLog, [ev |-> "commit"])
          /\ committed' = committed \o pending
          /\ pending' = <<>>
          /\ Returned
          /\ UNCHANGED <<errors, faults>>
       \/ /\ MayFail
          /\ faults' = faults + 1
          /\ Aborted(Append(dbLog, [ev |-> "commit_failed"]))
    /\ UNCHANGED <<cfg, fatal, dir, ldapOpen, mainVars, loadResult, bindResult,
                   ghostVars, credVars>>

(***************************************************************************)
(* db.py: OracleDatabase                                                   *)
(***************************************************************************)
\* The status a procedure returns in :code.
OraCodes == {0, 1}

\* db.py 75-78
OraSql(ph) ==
    CASE ph = "groups" -> "p_get_group"
      [] ph = "persons" -> "p_get_person"
      [] ph = "memberships" -> "p_get_memberships"
      [] ph = "run_sync" -> "p_run_sync"

\* db.py 85: target = 'group' if sql == self.groups_sql else 'person'
OraTarget(sql) == IF sql = OraSql("groups") THEN "group" ELSE "person"

\* db.py 84, 90, 104: the statement save() executes for the list it was
\* called with.
OraExecuted(sql) ==
    IF sql \in {OraSql("groups"), OraSql("persons")}
    THEN (IF OraTarget(sql) = "groups" THEN OraSql("groups") ELSE OraSql("persons"))
    ELSE OraSql("memberships")

\* OraIsError without the comparison.
OraIsErrorNever(code) == FALSE

\* db.py 92, 106, 128: the status check.
OraIsError(code) == code # 0

\* db.py 110: logging.exception(e) in the handler of a membership's call
\* writes the traceback as a record of its own, ahead of the item error; the
\* handler of the groups and persons (94-98) has no such line.
OraTraceback(ph, i) ==
    IF ph = "memberships" THEN Append(errors, [phase |-> "traceback", idx |-> i])
    ELSE errors

\* db.py 118-121: cx_Oracle.connect
OraConnect ==
    /\ pc = "DB_CONNECT"
    /\ ~cfg.pg
    /\ \/ /\ dbOpen' = TRUE
          /\ dbLog' = Append(dbLog, [ev |-> "connect"])
          /\ phase' = "groups"
          /\ idx' = 1
          /\ pc' = "DB_SAVE"
          /\ UNCHANGED <<pending, committed, errors, sleepFor>>
       \/ ConnectFailed
    /\ UNCHANGED <<cfg, fatal, dir, ldapOpen, mainVars, faults, loadResult,
                   bindResult, ghostVars, credVars>>

\* OraSave without the try/except around the item's call: the exception
\* reaches the handler of save_and_sync.
OraSaveAborting ==
    /\ pc = "DB_SAVE"
    /\ ~cfg.pg
    /\ phase \in ItemPhases
    /\ idx <= Len(Items(phase))
    /\ LET item == Items(phase)[idx]
           proc == OraExecuted(OraSql(phase))
       IN  \/ \E code \in OraCodes :
                /\ code = 0 \/ MayFail
                /\ faults' = IF code = 0 THEN faults ELSE faults + 1
                /\ dbLog' = Append(dbLog, Call(proc, item, code))
                /\ pending' = IF code = 0
                              THEN Append(pending, [proc |-> proc, arg |-> item])
                              ELSE pending
                /\ errors' = IF OraIsError(code)
                             THEN Append(errors, [phase |-> phase, idx |-> idx])
                             ELSE errors
                /\ idx' = idx + 1
                /\ UNCHANGED <<pc, phase, dbOpen, committed, sleepFor>>
           \/ /\ MayFail
              /\ faults' = faults + 1
              /\ Aborted(Append(dbLog, CallRaised(proc, item)))
    /\ UNCHANGED <<cfg, fatal, dir, ldapOpen, mainVars, loadResult, bindResult,
                   ghostVars, credVars>>

\* db.py 86-98, 100-114: one item of a for-loop of save().  A
\* cx_Oracle.DatabaseError of the item's call is caught and logged.
OraSave ==
    /\ pc = "DB_SAVE"
    /\ ~cfg.pg
    /\ phase \in ItemPhases
    /\ idx <= Len(Items(phase))
    /\ LET item == Items(phase)[idx]
           proc == OraExecuted(OraSql(phase))
       IN  \/ \E code \in OraCodes :
                /\ code = 0 \/ MayFail
                /\ faults' = IF code = 0 THEN faults ELSE faults + 1
                /\ dbLog' = Append(dbLog, Call(proc, item, code))
                /\ pending' = IF code = 0
                              THEN Append(pending, [proc |-> proc, arg |-> item])
                              ELSE pending
                /\ errors' = IF OraIsError(code)
                             THEN Append(errors, [phase |-> phase, idx |-> idx])
                             ELSE errors
           \/ /\ MayFail
              /\ faults' = faults + 1
              /\ dbLog' = Append(dbLog, CallRaised(proc, item))
              /\ errors' = OraTraceback(phase, idx)
                              \o <<[phase |-> phase, idx |-> idx]>>
              /\ UNCHANGED pending
    /\ idx' = idx + 1
    /\ UNCHANGED <<pc, cfg, sleepFor, fatal, dir, ldapOpen, mainVars, phase, dbOpen,
                   committed, loadResult, bindResult, ghostVars, credVars>>

\* OraLoopExit with a commit at the end of each save().
OraLoopExitCommitting ==
    /\ pc = "DB_SAVE"
    /\ ~cfg.pg
    /\ phase \in ItemPhases
    /\ idx > Len(Items(phase))
    /\ phase' = NextPhase(phase)
    /\ idx' = 1
    /\ dbLog' = Append(dbLog, [ev |-> "commit"])
    /\ committed' = committed \o pending
    /\ pending' = <<>>
    /\ UNCHANGED <<pc, cfg, sleepFor, fatal, dir, ldapOpen, mainVars, dbOpen,
                   errors, faults, loadResult, bindResult, ghostVars, credVars>>

\* db.py 122-124: save() returns to save_and_sync.
OraLoopExit ==
    /\ pc = "DB_SAVE"
    /\ ~cfg.pg
    /\ phase \in ItemPhases
    /\ idx > Len(Items(phase))
    /\ phase' = NextPhase(phase)
    /\ idx' = 1
    /\ UNCHANGED <<pc, cfg, sleepFor, fatal, dir, ldapOpen, mainVars, dbOpen,
                   pending, committed, errors, dbLog, faults, loadResult,
                   bindResult, ghostVars, credVars>>

\* db.py 125-130: the finalize call.
OraRunSync ==
    /\ pc = "DB_SAVE"
    /\ ~cfg.pg
    /\ phase = "run_sync"
    /\ \/ \E code \in OraCodes :
            /\ code = 0 \/ MayFail
            /\ faults' = IF code = 0 THEN faults ELSE faults + 1
            /\ dbLog' = Append(dbLog, Call(OraSql(phase), <<>>, code))
            /\ pending' = IF code = 0
                          THEN Append(pending, [proc |-> OraSql(phase), arg |-> <<>>])
                          ELSE pending
            /\ errors' = IF OraIsError(code)
                         THEN Append(errors, [phase |-> phase, idx |-> 0])
                         ELSE errors
            /\ phase' = NextPhase(phase)
            /\ UNCHANGED <<pc, idx, dbOpen, committed, sleepFor>>
       \/ /\ MayFail
          /\ faults' = faults + 1
          /\ Aborted(Append(dbLog, CallRaised(OraSql(phase), <<>>)))
    /\ UNCHANGED <<cfg, fatal, dir, ldapOpen, mainVars, loadResult, bindResult,
                   ghostVars, credVars>>

\* db.py 131-132: conn.commit(), then the `with` blocks are left.
OraCommit ==
    /\ pc = "DB_SAVE"
    /\ ~cfg.pg
    /\ phase = "commit"
    /\ \/ /\ dbLog' = Append(dbLog, [ev |-> "commit"])
          /\ committed' = committed \o pending
          /\ pending' = <<>>
          /\ Returned
          /\ UNCHANGED <<errors, faults>>
       \/ /\ MayFail
          /\ faults' = faults + 1
          /\ Aborted(Append(dbLog, [ev |-> "commit_failed"]))
    /\ UNCHANGED <<cfg, fatal, dir, ldapOpen, mainVars, loadResult, bindResult,
                   ghostVars, credVars>>

Next ==
    \/ LoadConfig
    \/ Wake
    \/ Connect
    \/ GroupsSearch
    \/ UsersPage
    \/ Unbind
    \/ PgConnect
    \/ PgSave
    \/ PgLoopExit
    \/ PgRunSync
    \/ PgCommit
    \/ OraConnect
    \/ OraSave
    \/ OraLoopExit
    \/ OraRunSync
    \/ OraCommit

Spec == Init /\ [][Next]_vars

(***************************************************************************)
(* generate_credentials on its own: the identifier is drawn from CredInputs, *)
(* the one step applies the function to its UUID.hex.upper().               *)
(***************************************************************************)
\* 0..MaxGuid, the neighbours of the powers of Radix beyond it, and the
\* largest integer of the model checker.
CredInputs ==
    0..MaxGuid \cup {1368, 1369, 1370, 50652, 50653, 50654, 1874160, 1874161,
                     69343956, 69343957, 2147483646, 2147483647}

InitCred ==
    /\ pc = "CREDENTIALS"
    /\ cfg = NoCfg
    /\ sleepFor = 0
    /\ fatal = "none"
    /\ dir = NoDirectory
    /\ ldapOpen = FALSE
    /\ groups = EmptyGroups
    /\ persons = <<>>
    /\ memberships = <<>>
    /\ pages = 0
    /\ cookie = 0
    /\ phase = "none"
    /\ idx = 0
    /\ dbOpen = FALSE
    /\ pending = <<>>
    /\ committed = <<>>
    /\ errors = <<>>
    /\ dbLog = <<>>
    /\ faults = 0
    /\ loadResult = "none"
    /\ bindResult = "none"
    /\ requests = <<>>
    /\ seen = <<>>
    /\ warned = FALSE
    /\ prevFailed = FALSE
    /\ credGuid \in CredInputs
    /\ credLogin = <<>>

\* main.py 124: person['login'], _ = generate_credentials(guid.hex.upper(), key)
GenerateCredentials ==
    /\ pc = "CREDENTIALS"
    /\ credLogin = <<>>
    /\ credLogin' = generate_credentials(HexUpper(credGuid)).login
    /\ UNCHANGED <<pc, cfg, sleepFor, fatal, dir, ldapOpen, mainVars, dbVars,
                   loadResult, bindResult, ghostVars, credGuid>>

NextCred == GenerateCredentials

SpecCred == InitCred /\ [][NextCred]_vars

(***************************************************************************)
(* Claims                                                                  *)
(***************************************************************************)
Failed(result) == result \notin {"none", "ok"}

\* C1: the sync loop has no terminal state; whatever the outcome of a cycle,
\* the process never stops.
C1_ProcessNeverStops == pc # "TERMINATED"

\* C2: whenever loading the configuration fails, the iteration attempts no
\* directory connection and no backend call, backs off 60 seconds and
\* re-enters LOADING_CONFIG.
C2_ConfigFailureBacksOff ==
    Failed(loadResult) =>
        /\ pc \in {"SLEEPING", "LOADING_CONFIG"}
        /\ pc = "SLEEPING" => sleepFor = ConfigRetrySeconds
        /\ bindResult = "none"
        /\ requests = <<>>
        /\ dbLog = <<>>

\* C3: whenever the directory bind fails, the iteration runs no extraction
\* and no persistence, backs off for the configured error retry interval, and
\* the configuration is loaded again before the next bind.
C3_BindFailureBacksOff ==
    Failed(bindResult) =>
        /\ pc \in {"SLEEPING", "LOADING_CONFIG"}
        /\ pc = "SLEEPING" => sleepFor = cfg.error_retry_interval
        /\ requests = <<>>
        /\ seen = <<>>
        /\ dbLog = <<>>

C3_Witness ==
    /\ bindResult = "invalid_credentials"
    /\ pc = "SLEEPING"
    /\ sleepFor = 10
    /\ cfg.error_retry_interval = 10

\* C4: when the user paging exceeds the page-count bound, nothing of the cycle
\* is persisted and the loop goes on with its next iteration: the error does
\* not stop the loop.
C4_BoundExceededLoopGoesOn ==
    PageBoundExceeded(pages) =>
        /\ dbLog = <<>>
        /\ pc # "TERMINATED"

\* The group references of an entry that are keys of the group index.
Resolvable(e, grp) == SelectSeq(e.memberOf, LAMBDA m : m \in DOMAIN grp)

\* C5: against a directory server that returns the users in N pages,
\* 1 <= N <= 999, the last with an empty cookie, the paging loop sends exactly
\* N search requests, each carrying the cookie the previous response
\* returned, ends without the bound error, and has processed every entry of
\* every page exactly once.
C5_PagedSearchComplete ==
    dir.paging = "paged" =>
        /\ NumPages(dir, cfg.page_size) \in 1..MaxPages
        /\ fatal # "pages_bound"
        /\ pc = "PAGING" =>
              /\ pages < NumPages(dir, cfg.page_size)
              /\ requests = [i \in 1..pages |-> i - 1]
              /\ cookie = pages
        /\ pc = "UNBINDING" =>
              /\ pages = NumPages(dir, cfg.page_size)
              /\ requests = [i \in 1..NumPages(dir, cfg.page_size) |-> i - 1]
              /\ seen = [k \in 1..dir.total |-> k]
              /\ \A k \in 1..Len(dir.users) :
                    LET e == EntryAt(dir, k)
                        found == e.dn # "" /\ Resolvable(e, groups) # <<>>
                    IN  Cardinality({i \in 1..Len(persons) :
                            persons[i].objectGUID = UuidStr(e.guid)})
                          = IF found THEN 1 ELSE 0

C5_Witness ==
    /\ dir.paging = "paged"
    /\ pc = "UNBINDING"
    /\ pages = MaxPages
    /\ Len(requests) = MaxPages
    /\ persons # <<>>

\* C6: against a server that returns a non-empty cookie on every page the
\* paging loop does not run forever: it raises the bound error at page 1000,
\* after exactly 999 pages were requested and processed and before a 1000th
\* request is sent.
C6_EndlessServerHitsBound ==
    dir.paging = "endless" =>
        /\ pc \in {"PAGING", "TERMINATED"}
        /\ pages <= MaxPages + 1
        /\ pc = "PAGING" => pages < MaxPages + 1 /\ Len(requests) = pages
        /\ fatal = "pages_bound" =>
              /\ pages = MaxPages + 1
              /\ requests = [i \in 1..MaxPages |-> i - 1]
              /\ seen = [k \in 1..dir.total |-> k]

C6_Witness ==
    /\ dir.paging = "endless"
    /\ fatal = "pages_bound"
    /\ Len(requests) = MaxPages

\* Number of membership edges of person guid in a list of memberships.
EdgesOf(guid, ms) == SelectSeq(ms, LAMBDA m : m[1] = UuidStr(guid))

\* C7: for every user entry with a non-empty dn that the cycle has processed,
\* the membership edges emitted for it are one per group reference that is a
\* key of the cycle's group index, each to that group's global id; a person
\* record is emitted for it iff there is at least one such edge, and then
\* exactly one.  Every person record has at least one membership edge.
C7_PersonsAndEdges ==
    pc \in {"PAGING", "UNBINDING"} =>
        /\ \A i \in 1..Len(seen) :
              LET e == EntryAt(dir, seen[i])
                  refs == IF e.dn = "" THEN <<>> ELSE Resolvable(e, groups)
              IN  /\ EdgesOf(e.guid, memberships) =
                        [j \in 1..Len(refs) |->
                            <<UuidStr(e.guid), groups[refs[j]].objectGUID>>]
                  /\ Cardinality({j \in 1..Len(persons) :
                            persons[j].objectGUID = UuidStr(e.guid)})
                        = IF Len(refs) >= 1 THEN 1 ELSE 0
        /\ \A j \in 1..Len(persons) :
              \E m \in 1..Len(memberships) :
                  memberships[m][1] = persons[j].objectGUID
        /\ \A m \in 1..Len(memberships) :
              \E i \in 1..Len(seen) : memberships[m][1] = UuidStr(seen[i])

\* an entry with one known and one unknown group: one edge, one person
C7_Witness ==
    /\ pc = "UNBINDING"
    /\ \E i \in 1..Len(seen) :
          LET e == EntryAt(dir, seen[i])
          IN  /\ e.memberOf = <<"g2", "gx">>
              /\ "g2" \in DOMAIN groups
              /\ Len(EdgesOf(e.guid, memberships)) = 1
    /\ \E i \in 1..Len(seen) :
          LET e == EntryAt(dir, seen[i])
          IN  /\ e.dn # ""
              /\ e.memberOf = <<"gx">>
              /\ EdgesOf(e.guid, memberships) = <<>>

\* The items handed to save_and_sync, in submission order, and their places.
AllItems == groups_xmls \o persons_xmls \o memberships

Places(ph) == [i \in 1..Len(Items(ph)) |-> [phase |-> ph, idx |-> i]]

AllPlaces == Places("groups") \o Places("persons") \o Places("memberships")

IsCall(x) == x.ev = "call"

ItemCalls(log) == SelectSeq(log, LAMBDA x : IsCall(x) /\ x.proc # "p_run_sync")

SyncCalls(log) == SelectSeq(log, LAMBDA x : IsCall(x) /\ x.proc = "p_run_sync")

Commits(log) == {i \in 1..Len(log) : log[i].ev = "commit"}

\* A connection failure, or a driver exception raised by a call or the commit.
IsDriverError(x) ==
    \/ x.ev \in {"connect_failed", "commit_failed"}
    \/ IsCall(x) /\ x.raised

DriverErrors(log) == {i \in 1..Len(log) : IsDriverError(log[i])}

ItemErrors == SelectSeq(errors, LAMBDA x : x.phase \in ItemPhases)

\* C8: PgDatabase.save_and_sync, no call raising: exactly one item error is
\* reported per item whose result differs from '(0,Success)' and none for the
\* others, every item is attempted, the finalize call is attempted, and the
\* transaction commits once, after the finalize call.
C8_PgItemErrors ==
    (cfg.pg /\ dbLog # <<>> /\ DriverErrors(dbLog) = {}) =>
        LET ic == ItemCalls(dbLog)
            bad == {i \in 1..Len(ic) : ic[i].res # PgSuccess}
        IN  /\ Len(ic) <= Len(AllItems)
            /\ \A i \in 1..Len(ic) :
                  /\ ic[i].arg = AllItems[i]
                  /\ ic[i].proc = PgSql(AllPlaces[i].phase)
            /\ Len(ItemErrors) = Cardinality(bad)
            /\ Range(ItemErrors) = {AllPlaces[i] : i \in bad}
            /\ Cardinality(Commits(dbLog)) <= 1
            /\ pc # "DB_SAVE" =>
                  /\ Len(ic) = Len(AllItems)
                  /\ Len(SyncCalls(dbLog)) = 1
                  /\ Commits(dbLog) = {Len(dbLog)}
                  /\ dbLog[Len(dbLog) - 1].proc = "p_run_sync"
                  /\ Len(committed) =
                        Len(AllItems) - Cardinality(bad)
                          + (IF errors = ItemErrors THEN 1 ELSE 0)

\* two groups, the first fails its sentinel check: one item error, the second
\* group and the finalize call are attempted, the transaction commits
C8_Witness ==
    /\ cfg.pg
    /\ pc = "SLEEPING"
    /\ Len(groups_xmls) = 2
    /\ errors = <<[phase |-> "groups", idx |-> 1]>>
    /\ Commits(dbLog) # {}
    /\ \E i \in 1..Len(committed) : committed[i].arg = groups_xmls[2]

\* C9: PgDatabase.save_and_sync: if the connection cannot be established, or
\* any call (item or finalize) raises a driver exception, the persistence of
\* the cycle is aborted and nothing is committed.
C9_PgDriverErrorNoCommit ==
    (cfg.pg /\ DriverErrors(dbLog) # {}) =>
        /\ pc \in {"SLEEPING", "LOADING_CONFIG"}
        /\ committed = <<>>
        /\ pending = <<>>
        /\ Commits(dbLog) = {}
        /\ \A i \in DriverErrors(dbLog), j \in 1..Len(dbLog) :
              j > i => dbLog[j].ev \in {"rollback", "fatal_logged"}

\* a membership call raises after a group and a person were submitted
C9_Witness ==
    /\ cfg.pg
    /\ pc = "SLEEPING"
    /\ committed = <<>>
    /\ \E i \in 1..Len(dbLog) :
          /\ IsCall(dbLog[i])
          /\ dbLog[i].proc = "p_get_memberships"
          /\ dbLog[i].res = "exception"
    /\ \E i \in 1..Len(dbLog) :
          /\ IsCall(dbLog[i])
          /\ dbLog[i].proc = "p_get_group"
          /\ dbLog[i].res = PgSuccess

OraRunning == ~cfg.pg /\ dbLog # <<>>

\* C10 as stated: OracleDatabase.save_and_sync commits after the groups
\* phase, after the persons phase and after the memberships phase, then makes
\* the finalize call and a final commit.
C10_OraCommitPerPhase ==
    /\ (OraRunning /\ pc = "DB_SAVE" /\ phase \in {"persons", "memberships", "run_sync"}
            /\ idx = 1)
        => dbLog[Len(dbLog)].ev = "commit"
    /\ (OraRunning /\ pc = "SLEEPING" /\ DriverErrors(dbLog) = {})
        => Cardinality(Commits(dbLog)) = 4

\* C10 as amended: OracleDatabase.save_and_sync runs the three phases and
\* the finalize call in one transaction: nothing is committed between the
\* phases, and the only commit is the one after the finalize call.
C10_OraSingleCommit ==
    OraRunning =>
        /\ Cardinality(Commits(dbLog)) <= 1
        /\ \A i \in Commits(dbLog) :
              /\ i = Len(dbLog)
              /\ IsCall(dbLog[i - 1])
              /\ dbLog[i - 1].proc = "p_run_sync"
        /\ pc = "DB_SAVE" => committed = <<>>
        /\ committed # <<>> => Commits(dbLog) # {}
        /\ (pc = "SLEEPING" /\ Commits(dbLog) # {}) => Len(ItemCalls(dbLog)) = Len(AllItems)

C10_Witness ==
    /\ OraRunning
    /\ pc = "SLEEPING"
    /\ Commits(dbLog) = {Len(dbLog)}
    /\ groups_xmls # <<>>
    /\ persons_xmls # <<>>
    /\ memberships # <<>>
    /\ Len(committed) = Len(AllItems) + 1

\* save_and_sync got its connection / has returned to the main loop.
Connected == dbLog # <<>> /\ dbLog[1].ev = "connect"

SaveReturned == Connected /\ pc = "SLEEPING"

Raised(log) == {i \in 1..Len(log) : IsCall(log[i]) /\ log[i].raised}

\* C11 as stated: in both persistence variants every submitted item is
\* attempted even if earlier items failed, by a non-success status or by an
\* exception raised by the item's call.
C11_EveryItemAttempted ==
    SaveReturned =>
        LET ic == ItemCalls(dbLog)
        IN  /\ Len(ic) = Len(AllItems)
            /\ \A i \in 1..Len(ic) : ic[i].arg = AllItems[i]

\* C11 as amended: OracleDatabase attempts every submitted item, whatever
\* status or exception earlier items ended with.  PgDatabase attempts every
\* item after earlier non-success statuses; an exception raised by an item's
\* call ends its loops, and the items after that one are not attempted.
C11_ItemsAttempted ==
    SaveReturned =>
        LET ic == ItemCalls(dbLog)
            all == AllItems
        IN  /\ Len(ic) <= Len(all)
            /\ \A i \in 1..Len(ic) : ic[i].arg = all[i]
            /\ ~cfg.pg => Len(ic) = Len(all)
            /\ (cfg.pg /\ Raised(ic) = {}) => Len(ic) = Len(all)
            /\ (cfg.pg /\ Raised(ic) # {}) => Raised(ic) = {Len(ic)}

\* OracleDatabase: the call of the first item raises, and the items after it
\* are attempted all the same
C11_Witness ==
    /\ SaveReturned
    /\ ~cfg.pg
    /\ Len(AllItems) >= 3
    /\ Len(ItemCalls(dbLog)) = Len(AllItems)
    /\ ItemCalls(dbLog)[1].raised

\* C12 as stated: in both persistence variants, once the backend connection
\* is established, the finalize call is attempted exactly once in the cycle,
\* even when every prior item failed by status or by exception.
C12_FinalizeAlwaysAttempted ==
    SaveReturned => Len(SyncCalls(dbLog)) = 1

\* C12 as amended: the finalize call is never attempted twice.  With the
\* connection established, OracleDatabase attempts it exactly once, after the
\* last item, even when every item failed by status or by exception;
\* PgDatabase attempts it exactly once, after the last item, when no item's
\* call raised, even when every item returned a non-success status, and not at
\* all after an item's call raised.
C12_FinalizeOnce ==
    LET ic == ItemCalls(dbLog)
        sync == {i \in 1..Len(dbLog) : IsCall(dbLog[i]) /\ dbLog[i].proc = "p_run_sync"}
    IN  /\ Cardinality(sync) <= 1
        /\ \A i \in sync : i = Len(AllItems) + 2
        /\ (SaveReturned /\ (~cfg.pg \/ Raised(ic) = {})) => Cardinality(sync) = 1
        /\ (cfg.pg /\ Raised(ic) # {}) => sync = {}

\* OracleDatabase: the call of the only item raises, the finalize call follows
C12_Witness ==
    /\ SaveReturned
    /\ ~cfg.pg
    /\ Len(AllItems) = 1
    /\ Len(ItemCalls(dbLog)) = 1
    /\ ItemCalls(dbLog)[1].raised
    /\ Len(SyncCalls(dbLog)) = 1

\* A call that answered with the success status of its variant.
Succeeded(x) == ~x.raised /\ (IF cfg.pg THEN x.res = PgSuccess ELSE x.res = 0)

\* The items whose call succeeded, as the backend staged them.
Staged ==
    LET ok == SelectSeq(ItemCalls(dbLog), Succeeded)
    IN  [i \in 1..Len(ok) |-> [proc |-> ok[i].proc, arg |-> ok[i].arg]]

SyncErrors == SelectSeq(errors, LAMBDA x : x.phase = "run_sync")

\* C13 as stated: a failure of the finalize call (a non-success status, or an
\* exception raised by the call) is logged and does not undo the item data
\* submitted earlier: the items submitted successfully before it are
\* committed.
C13_FinalizeFailureKeepsItems ==
    SaveReturned =>
        \A i \in 1..Len(SyncCalls(dbLog)) :
            LET x == SyncCalls(dbLog)[i]
            IN  ~Succeeded(x) =>
                    /\ SyncErrors # <<>> \/ FatalLogged
                    /\ \A j \in 1..Len(Staged) :
                          \E k \in 1..Len(committed) : committed[k] = Staged[j]

\* C13 as amended: a finalize call that returns a non-success status is
\* logged as one error and undoes nothing: the commit that follows it commits
\* exactly the items submitted successfully.  An exception raised by the
\* finalize call is logged and ends the transaction without a commit: none of
\* the cycle's items is committed.
C13_FinalizeFailure ==
    SaveReturned =>
        \A i \in 1..Len(SyncCalls(dbLog)) :
            LET x == SyncCalls(dbLog)[i]
            IN  /\ (~x.raised /\ ~Succeeded(x)) =>
                      /\ Len(SyncErrors) = 1
                      /\ DriverErrors(dbLog) = {} =>
                            /\ Commits(dbLog) # {}
                            /\ committed = Staged
                /\ x.raised =>
                      /\ FatalLogged
                      /\ Commits(dbLog) = {}
                      /\ committed = <<>>

\* PgDatabase: a group is submitted, the finalize call returns an error row,
\* the group is committed
C13_Witness ==
    /\ SaveReturned
    /\ cfg.pg
    /\ Len(SyncCalls(dbLog)) = 1
    /\ SyncCalls(dbLog)[1].res = "(1,Error)"
    /\ Len(SyncErrors) = 1
    /\ Staged # <<>>
    /\ committed = Staged

C15_DryRunSkipsPersisting ==
    cfg.dbg_no_save =>
        /\ pc \notin {"DB_CONNECT", "DB_SAVE"}
        /\ ~dbOpen
        /\ dbLog = <<>>
        /\ pending = <<>> /\ committed = <<>> /\ errors = <<>>
        /\ (pc = "SLEEPING" /\ loadResult = "ok" /\ bindResult = "ok")
              => sleepFor = cfg.sync_interval

\* a dry-run cycle that extracted a person and a membership, asleep
C15_Witness ==
    /\ cfg.dbg_no_save
    /\ pc = "SLEEPING"
    /\ loadResult = "ok"
    /\ bindResult = "ok"
    /\ persons # <<>>
    /\ memberships # <<>>
    /\ ~ldapOpen
    /\ sleepFor = cfg.sync_interval
    /\ dbLog = <<>>

\* The inverse of baseN: the number a digit string denotes in radix b.
RECURSIVE Decode(_, _, _)
Decode(str, b, numerals) ==
    IF str = <<>> THEN 0
    ELSE Decode(SubSeq(str, 1, Len(str) - 1), b, numerals) * b
            + DigitValue(str[Len(str)], numerals)

\* C16: baseN with radix 37 maps 0 to "0" and 36 to "_"; for n > 0 it gives
\* the digits of n over 0-9A-Z_, most significant first, without a leading
\* "0"; decoding its output gives n back; and the login is "L0_" followed by
\* it, so two different identifiers never get the same login.
C16_BaseEncode ==
    credLogin # <<>> =>
        LET enc == SubSeq(credLogin, 4, Len(credLogin))
        IN  /\ SubSeq(credLogin, 1, 3) = <<"L", "0", "_">>
            /\ enc = baseN(credGuid, Radix, Numerals)
            /\ credGuid = 0 => enc = <<"0">>
            /\ credGuid = 36 => enc = <<"_">>
            /\ enc # <<>>
            /\ \A i \in 1..Len(enc) : enc[i] \in Range(Numerals)
            /\ credGuid > 0 => enc[1] # "0"
            /\ Decode(enc, Radix, Numerals) = credGuid
            /\ \A m \in CredInputs \ {credGuid} :
                  generate_credentials(HexUpper(m)).login # credLogin

\* 37 * 37 encodes as the three digits 1, 0, 0
C16_Witness ==
    /\ credGuid = 1369
    /\ credLogin = <<"L", "0", "_", "1", "0", "0">>

\* C17: when the answer to the first paged user search carries no paging
\* control, the loop processes the entries of that one batch, logs the
\* warning, and ends after exactly one search request.
C17_IgnoredPagingOneRequest ==
    /\ dir.paging = "ignored" =>
          /\ pages <= 1
          /\ Len(requests) = pages
          /\ pc = "PAGING" => (pages = 0 /\ ~warned)
          /\ pc = "UNBINDING" =>
                LET batch == ServerPage(dir, cfg.page_size, 0)
                    acc == ProcessPage(batch.data, groups,
                                       [persons |-> <<>>, memberships |-> <<>>])
                IN  /\ pages = 1
                    /\ requests = <<0>>
                    /\ warned
                    /\ seen = [j \in 1..dir.total |-> j]
                    /\ persons = acc.persons
                    /\ memberships = acc.memberships
    /\ warned => (pages = 1 /\ requests = <<0>> /\ pc # "PAGING")
    /\ (warned /\ pc = "UNBINDING") => dir.paging = "ignored"

\* a server that ignores the control answers the page-size-1 search with
\* both entries: two persons, the warning, one request
C17_Witness ==
    /\ pc = "UNBINDING"
    /\ dir.paging = "ignored"
    /\ cfg.page_size = 1
    /\ dir.total = 2
    /\ Len(persons) = 2
    /\ warned
    /\ requests = <<0>>

\* The for-loop has iterated over a user entry with this dn and GUID in this
\* cycle.
SeenEntry(dn, guid) ==
    \E j \in 1..Len(seen) :
        LET e == EntryAt(dir, seen[j])
        IN  UuidStr(e.guid) = guid /\ (dn = e.dn \/ dn = "any")

\* C18: no working state crosses a cycle boundary.  When the extraction of a
\* cycle starts, the person list, the membership list and the page counter
\* are empty/zero and the group index holds the groups of this cycle's group
\* search only; every person and membership of the snapshot comes from an
\* entry the directory returned in this cycle, and the backend is given this
\* snapshot; also when the iteration before had item errors or failed.
C18_NoStateAcrossCycles ==
    /\ pc \in {"PAGING", "UNBINDING"} =>
          /\ groups = BuildGroups(dir.groups, EmptyGroups)
          /\ pages = 0 =>
                (persons = <<>> /\ memberships = <<>> /\ cookie = 0 /\ seen = <<>>)
          /\ \A i \in 1..Len(persons) :
                SeenEntry(persons[i].dn, persons[i].objectGUID)
          /\ \A i \in 1..Len(memberships) :
                /\ SeenEntry("any", memberships[i][1])
                /\ \E g \in Range(dir.groups) : memberships[i][2] = UuidStr(g.guid)
    /\ (pc \in {"DB_SAVE", "SLEEPING"} /\ dbLog # <<>>) =>
          LET ic == ItemCalls(dbLog)
              all == AllItems
          IN  \A i \in 1..Len(ic) : ic[i].arg = all[i]

\* the iteration before left persons behind and failed to persist them; this
\* cycle's directory has one group and no user in a group, and the snapshot
\* is that group alone
C18_Witness ==
    /\ prevFailed
    /\ pc = "UNBINDING"
    /\ pages = 1
    /\ Len(dir.groups) = 1
    /\ DOMAIN groups = {"g1"}
    /\ persons = <<>>
    /\ memberships = <<>>

\* C19: the directory connection opened in a cycle is released before the
\* persistence of the cycle starts and before the next connect attempt, on
\* every path to a next connect attempt, a failed bind included; and a
\* directory connection is never held together with a backend connection.
C19_DirectoryReleased ==
    /\ pc \in {"DB_CONNECT", "DB_SAVE"} => ~ldapOpen
    /\ pc = "CONNECTING" => ~ldapOpen
    /\ ~(ldapOpen /\ dbOpen)

\* C20: OracleDatabase submits every group document through p_get_group,
\* every person document through p_get_person and every membership through
\* p_get_memberships; no group goes to the person procedure.
C20_OraRouting ==
    (~cfg.pg /\ dbLog # <<>>) =>
        LET ic == ItemCalls(dbLog)
            all == AllItems
            places == AllPlaces
        IN  \A i \in 1..Len(ic) :
                ic[i].arg = all[i] => ic[i].proc = OraSql(places[i].phase)

====
